---- MODULE Spec2Model ----
(***************************************************************************)
(* A model of the JSON reformatting code of flimzy/json (indent.go):       *)
(* Compact, Indent and the streaming IndentWriter, all driven by the       *)
(* byte-at-a-time scanner.  Bytes are integers 0..255, byte slices and     *)
(* buffers are sequences of bytes.                                         *)
(***************************************************************************)
EXTENDS Integers, Sequences, FiniteSets, TLC

(***************************************************************************)
(* Bytes the code names.                                                   *)
(***************************************************************************)
TAB == 9
LF == 10
CR == 13
SP == 32
QUOTE == 34
AMP == 38
PLUS == 43
COMMA == 44
MINUS == 45
DOT == 46
SLASH == 47
DIGIT0 == 48
DIGIT1 == 49
DIGIT9 == 57
COLON == 58
LT == 60
GT == 62
LBRACKET == 91
BACKSLASH == 92
RBRACKET == 93
LBRACE == 123
RBRACE == 125
UTF8E2 == 226
UTF880 == 128
UTF8A8 == 168
UTF8A9 == 169

\* F applied to the value of v: v is evaluated once, before F uses it.
Let(v, F(_)) == CHOOSE y \in {F(x) : x \in {v}} : TRUE

\* ASCII codes of the lower-case letters the scanner and the escapes name.
Chr(ch) ==
  CASE ch = "a" -> 97 [] ch = "b" -> 98 [] ch = "c" -> 99 [] ch = "d" -> 100
    [] ch = "e" -> 101 [] ch = "f" -> 102 [] ch = "l" -> 108 [] ch = "n" -> 110
    [] ch = "r" -> 114 [] ch = "s" -> 115 [] ch = "t" -> 116 [] ch = "u" -> 117
    [] ch = "E" -> 69 [] ch = "A" -> 65 [] ch = "F" -> 70

\* const hex = "0123456789abcdef", as the byte of each digit.
hex == [d \in 0..15 |-> IF d < 10 THEN DIGIT0 + d ELSE 97 + (d - 10)]

(***************************************************************************)
(* The scanner: a state machine over single bytes.  step names the state   *)
(* function that receives the next byte; parseState is the stack of open   *)
(* containers; err is the stored syntax error.  scanner.go is not among    *)
(* the sources at hand: the scanner follows the contract the specification *)
(* gives (reset, step, eof, the classification codes) with the state       *)
(* functions of encoding/json, of which this package is a copy.            *)
(***************************************************************************)
scanContinue == 0
scanBeginLiteral == 1
scanBeginObject == 2
scanObjectKey == 3
scanObjectValue == 4
scanEndObject == 5
scanBeginArray == 6
scanArrayValue == 7
scanEndArray == 8
scanSkipSpace == 9
scanEnd == 10
scanError == 11

parseObjectKey == 0
parseObjectValue == 1
parseArrayValue == 2

\* The nil error, and a syntax error with its message parts and offset.
nil == [msg |-> "nil", c |-> 0, offset |-> 0]

SyntaxError(msg, c, offset) == [msg |-> msg, c |-> c, offset |-> offset]

\* scanner.reset
reset ==
  [step |-> "stateBeginValue", parseState |-> <<>>, endTop |-> FALSE,
   err |-> nil, bytes |-> 0]

Ret(s, v) == [scan |-> s, v |-> v]

isSpace(c) == c = SP \/ c = TAB \/ c = CR \/ c = LF

isDigit(c) == DIGIT0 <= c /\ c <= DIGIT9

isHex(c) ==
  \/ isDigit(c)
  \/ (Chr("a") <= c /\ c <= Chr("f"))
  \/ (Chr("A") <= c /\ c <= Chr("F"))

\* scanner.error: records the error and kills the scanner.
error(s, c, context) ==
  Ret([s EXCEPT !.step = "stateError",
                !.err = SyntaxError(context, c, s.bytes)], scanError)

pushParseState(s, p) == [s EXCEPT !.parseState = Append(s.parseState, p)]

popParseState(s) ==
  LET n == Len(s.parseState) - 1
      t == [s EXCEPT !.parseState = SubSeq(s.parseState, 1, n)]
  IN IF n = 0
       THEN [t EXCEPT !.step = "stateEndTop", !.endTop = TRUE]
       ELSE [t EXCEPT !.step = "stateEndValue"]

SetTop(s, p) == [s EXCEPT !.parseState[Len(s.parseState)] = p]

Goto(s, st) == [s EXCEPT !.step = st]

\* stateEndTop: a non-space byte after the top-level value records the error
\* and still classifies the byte as scanEnd.
stateEndTop(s, c) ==
  IF ~isSpace(c)
    THEN Ret(error(s, c, "after top-level value").scan, scanEnd)
    ELSE Ret(s, scanEnd)

stateEndValue(s, c) ==
  LET n == Len(s.parseState) IN
  IF n = 0
    THEN stateEndTop([s EXCEPT !.step = "stateEndTop", !.endTop = TRUE], c)
  ELSE IF isSpace(c)
    THEN Ret(Goto(s, "stateEndValue"), scanSkipSpace)
  ELSE LET ps == s.parseState[n] IN
    CASE ps = parseObjectKey ->
           IF c = COLON
             THEN Ret(Goto(SetTop(s, parseObjectValue), "stateBeginValue"),
                      scanObjectKey)
             ELSE error(s, c, "after object key")
      [] ps = parseObjectValue ->
           IF c = COMMA
             THEN Ret(Goto(SetTop(s, parseObjectKey), "stateBeginString"),
                      scanObjectValue)
           ELSE IF c = RBRACE
             THEN Ret(popParseState(s), scanEndObject)
           ELSE error(s, c, "after object key:value pair")
      [] ps = parseArrayValue ->
           IF c = COMMA
             THEN Ret(Goto(s, "stateBeginValue"), scanArrayValue)
           ELSE IF c = RBRACKET
             THEN Ret(popParseState(s), scanEndArray)
           ELSE error(s, c, "after array element")

stateBeginValue(s, c) ==
  IF isSpace(c) THEN Ret(s, scanSkipSpace)
  ELSE IF c = LBRACE
    THEN Ret(pushParseState(Goto(s, "stateBeginStringOrEmpty"), parseObjectKey),
             scanBeginObject)
  ELSE IF c = LBRACKET
    THEN Ret(pushParseState(Goto(s, "stateBeginValueOrEmpty"), parseArrayValue),
             scanBeginArray)
  ELSE IF c = QUOTE THEN Ret(Goto(s, "stateInString"), scanBeginLiteral)
  ELSE IF c = MINUS THEN Ret(Goto(s, "stateNeg"), scanBeginLiteral)
  ELSE IF c = DIGIT0 THEN Ret(Goto(s, "state0"), scanBeginLiteral)
  ELSE IF c = Chr("t") THEN Ret(Goto(s, "stateT"), scanBeginLiteral)
  ELSE IF c = Chr("f") THEN Ret(Goto(s, "stateF"), scanBeginLiteral)
  ELSE IF c = Chr("n") THEN Ret(Goto(s, "stateN"), scanBeginLiteral)
  ELSE IF DIGIT1 <= c /\ c <= DIGIT9
    THEN Ret(Goto(s, "state1"), scanBeginLiteral)
  ELSE error(s, c, "looking for beginning of value")

stateBeginValueOrEmpty(s, c) ==
  IF isSpace(c) THEN Ret(s, scanSkipSpace)
  ELSE IF c = RBRACKET THEN stateEndValue(s, c)
  ELSE stateBeginValue(s, c)

stateBeginString(s, c) ==
  IF isSpace(c) THEN Ret(s, scanSkipSpace)
  ELSE IF c = QUOTE THEN Ret(Goto(s, "stateInString"), scanBeginLiteral)
  ELSE error(s, c, "looking for beginning of object key string")

stateBeginStringOrEmpty(s, c) ==
  IF isSpace(c) THEN Ret(s, scanSkipSpace)
  ELSE IF c = RBRACE THEN stateEndValue(SetTop(s, parseObjectValue), c)
  ELSE stateBeginString(s, c)

stateInString(s, c) ==
  IF c = QUOTE THEN Ret(Goto(s, "stateEndValue"), scanContinue)
  ELSE IF c = BACKSLASH THEN Ret(Goto(s, "stateInStringEsc"), scanContinue)
  ELSE IF c < SP THEN error(s, c, "in string literal")
  ELSE Ret(s, scanContinue)

stateInStringEsc(s, c) ==
  IF c \in {Chr("b"), Chr("f"), Chr("n"), Chr("r"), Chr("t"),
            BACKSLASH, SLASH, QUOTE}
    THEN Ret(Goto(s, "stateInString"), scanContinue)
  ELSE IF c = Chr("u") THEN Ret(Goto(s, "stateInStringEscU"), scanContinue)
  ELSE error(s, c, "in string escape code")

\* stateInStringEscU, ...EscU1, ...EscU12, ...EscU123: four hex digits.
stateInStringEscUx(s, c, next) ==
  IF isHex(c) THEN Ret(Goto(s, next), scanContinue)
  ELSE error(s, c, "in \\u hexadecimal character escape")

stateNeg(s, c) ==
  IF c = DIGIT0 THEN Ret(Goto(s, "state0"), scanContinue)
  ELSE IF DIGIT1 <= c /\ c <= DIGIT9 THEN Ret(Goto(s, "state1"), scanContinue)
  ELSE error(s, c, "in numeric literal")

stateE0(s, c) ==
  IF isDigit(c) THEN Ret(s, scanContinue) ELSE stateEndValue(s, c)

stateESign(s, c) ==
  IF isDigit(c) THEN Ret(Goto(s, "stateE0"), scanContinue)
  ELSE error(s, c, "in exponent of numeric literal")

stateE(s, c) ==
  IF c = PLUS \/ c = MINUS THEN Ret(Goto(s, "stateESign"), scanContinue)
  ELSE stateESign(s, c)

stateDot0(s, c) ==
  IF isDigit(c) THEN Ret(s, scanContinue)
  ELSE IF c = Chr("e") \/ c = Chr("E") THEN Ret(Goto(s, "stateE"), scanContinue)
  ELSE stateEndValue(s, c)

stateDot(s, c) ==
  IF isDigit(c) THEN Ret(Goto(s, "stateDot0"), scanContinue)
  ELSE error(s, c, "after decimal point in numeric literal")

state0(s, c) ==
  IF c = DOT THEN Ret(Goto(s, "stateDot"), scanContinue)
  ELSE IF c = Chr("e") \/ c = Chr("E") THEN Ret(Goto(s, "stateE"), scanContinue)
  ELSE stateEndValue(s, c)

state1(s, c) ==
  IF isDigit(c) THEN Ret(Goto(s, "state1"), scanContinue) ELSE state0(s, c)

\* stateT, stateTr, stateTru, stateF, ..., stateNul: one expected letter each.
stateLetter(s, c, want, next, context) ==
  IF c = Chr(want) THEN Ret(Goto(s, next), scanContinue)
  ELSE error(s, c, context)

stateError(s, c) == Ret(s, scanError)

\* scan.step(&scan, c): the call through the scanner's current state function.
step(s, c) ==
  LET st == s.step IN
  CASE st = "stateBeginValue" -> stateBeginValue(s, c)
    [] st = "stateBeginValueOrEmpty" -> stateBeginValueOrEmpty(s, c)
    [] st = "stateBeginString" -> stateBeginString(s, c)
    [] st = "stateBeginStringOrEmpty" -> stateBeginStringOrEmpty(s, c)
    [] st = "stateEndValue" -> stateEndValue(s, c)
    [] st = "stateEndTop" -> stateEndTop(s, c)
    [] st = "stateInString" -> stateInString(s, c)
    [] st = "stateInStringEsc" -> stateInStringEsc(s, c)
    [] st = "stateInStringEscU" -> stateInStringEscUx(s, c, "stateInStringEscU1")
    [] st = "stateInStringEscU1" -> stateInStringEscUx(s, c, "stateInStringEscU12")
    [] st = "stateInStringEscU12" -> stateInStringEscUx(s, c, "stateInStringEscU123")
    [] st = "stateInStringEscU123" -> stateInStringEscUx(s, c, "stateInString")
    [] st = "stateNeg" -> stateNeg(s, c)
    [] st = "state0" -> state0(s, c)
    [] st = "state1" -> state1(s, c)
    [] st = "stateDot" -> stateDot(s, c)
    [] st = "stateDot0" -> stateDot0(s, c)
    [] st = "stateE" -> stateE(s, c)
    [] st = "stateESign" -> stateESign(s, c)
    [] st = "stateE0" -> stateE0(s, c)
    [] st = "stateT" -> stateLetter(s, c, "r", "stateTr", "in literal true (expecting 'r')")
    [] st = "stateTr" -> stateLetter(s, c, "u", "stateTru", "in literal true (expecting 'u')")
    [] st = "stateTru" -> stateLetter(s, c, "e", "stateEndValue", "in literal true (expecting 'e')")
    [] st = "stateF" -> stateLetter(s, c, "a", "stateFa", "in literal false (expecting 'a')")
    [] st = "stateFa" -> stateLetter(s, c, "l", "stateFal", "in literal false (expecting 'l')")
    [] st = "stateFal" -> stateLetter(s, c, "s", "stateFals", "in literal false (expecting 's')")
    [] st = "stateFals" -> stateLetter(s, c, "e", "stateEndValue", "in literal false (expecting 'e')")
    [] st = "stateN" -> stateLetter(s, c, "u", "stateNu", "in literal null (expecting 'u')")
    [] st = "stateNu" -> stateLetter(s, c, "l", "stateNul", "in literal null (expecting 'l')")
    [] st = "stateNul" -> stateLetter(s, c, "l", "stateEndValue", "in literal null (expecting 'l')")
    [] st = "stateError" -> stateError(s, c)

\* scanner.eof: tells the scanner the input has ended.  A value still open at
\* top level is closed by feeding one space to the state function.
eof(s) ==
  IF s.err # nil THEN Ret(s, scanError)
  ELSE IF s.endTop THEN Ret(s, scanEnd)
  ELSE LET t == step(s, SP).scan IN
    IF t.endTop THEN Ret(t, scanEnd)
    ELSE IF t.err = nil
      THEN Ret([t EXCEPT !.err =
                  SyntaxError("unexpected end of JSON input", 0, t.bytes)],
               scanError)
    ELSE Ret(t, scanError)

(***************************************************************************)
(* The writer capability: a buffer of bytes, the number of appends the     *)
(* sink still accepts (quota -1: a bytes.Buffer, which never fails) and    *)
(* the number of appends it has refused.  Each operation returns the       *)
(* writer and the error of the append.                                     *)
(***************************************************************************)
ErrSink == [msg |-> "write failed", c |-> 0, offset |-> 0]

Buffer(b) == [buf |-> b, quota |-> 0 - 1, fails |-> 0]

\* A sink that accepts q appends and refuses every later one.
Sink(q) == [buf |-> <<>>, quota |-> q, fails |-> 0]

dstWrite(dst, p) ==
  IF dst.quota = 0
    THEN [w |-> [dst EXCEPT !.fails = dst.fails + 1], err |-> ErrSink]
    ELSE [w |-> [buf |-> dst.buf \o p,
                 quota |-> IF dst.quota > 0 THEN dst.quota - 1 ELSE dst.quota,
                 fails |-> dst.fails],
          err |-> nil]

dstWriteByte(dst, c) == dstWrite(dst, <<c>>)

dstWriteString(dst, s) == dstWrite(dst, s)

\* bytes.Buffer.Truncate(n): keep the first n bytes.
Truncate(dst, n) == [dst EXCEPT !.buf = SubSeq(dst.buf, 1, n)]

\* The next append of a chain of appends each guarded by "if err != nil return".
ThenWrite(r, p) == IF r.err # nil THEN r ELSE dstWrite(r.w, p)

(***************************************************************************)
(* compact                                                                 *)
(***************************************************************************)
\* src[start:i] when start < i, flushed to dst.
Flush(r, src, start, i) ==
  IF start < i THEN ThenWrite(r, SubSeq(src, start + 1, i)) ELSE r

\* EscapeHTML with the two hex digits in the wrong order.
EscapeHTMLSwapped(r, src, start, i, c) ==
  ThenWrite(ThenWrite(ThenWrite(Flush(r, src, start, i),
    <<BACKSLASH, Chr("u"), DIGIT0, DIGIT0>>),
    <<hex[c % 16]>>),
    <<hex[c \div 16]>>)

\* The escape of '<', '>', '&': \u00 and the two hex digits of the byte.
EscapeHTML(r, src, start, i, c) ==
  ThenWrite(ThenWrite(ThenWrite(Flush(r, src, start, i),
    <<BACKSLASH, Chr("u"), DIGIT0, DIGIT0>>),
    <<hex[c \div 16]>>),
    <<hex[c % 16]>>)

\* src[i] starts E2 80 A8 or E2 80 A9 (src[i+2]&^1 == 0xA8).
IsLineSep(src, i) ==
  /\ src[i + 1] = UTF8E2
  /\ i + 2 < Len(src)
  /\ src[i + 2] = UTF880
  /\ src[i + 3] \in {UTF8A8, UTF8A9}

\* The escape of U+2028 / U+2029: \u202 and the low hex digit of the third byte.
EscapeLineSep(r, src, start, i) ==
  ThenWrite(ThenWrite(Flush(r, src, start, i),
    <<BACKSLASH, Chr("u"), DIGIT0 + 2, DIGIT0, DIGIT0 + 2>>),
    <<hex[src[i + 3] % 16]>>)

\* compactByte that drops a byte only when it is scanSkipSpace (v == for v >=).
compactByteSkipOnly(st, src, i, escape) ==
  LET c == src[i + 1]
      r0 == [w |-> st.dst, err |-> nil]
      html == escape /\ c \in {LT, GT, AMP}
      r1 == IF html THEN EscapeHTML(r0, src, st.start, i, c) ELSE r0
      start1 == IF html THEN i + 1 ELSE st.start
      sep == IsLineSep(src, i)
      r2 == IF sep THEN EscapeLineSep(r1, src, start1, i) ELSE r1
      start2 == IF sep THEN i + 3 ELSE start1
      sv == step(st.scan, c)
      r3 == IF sv.v = scanSkipSpace THEN Flush(r2, src, start2, i) ELSE r2
      start3 == IF sv.v = scanSkipSpace THEN i + 1 ELSE start2
  IN IF r1.err # nil THEN [st EXCEPT !.dst = r1.w, !.err = r1.err]
     ELSE IF r2.err # nil THEN [st EXCEPT !.dst = r2.w, !.err = r2.err]
     ELSE IF sv.v = scanError
       THEN [st EXCEPT !.dst = r2.w, !.scan = sv.scan, !.start = start2,
                       !.brk = TRUE]
     ELSE [dst |-> r3.w, scan |-> sv.scan, start |-> start3, err |-> r3.err,
           brk |-> FALSE]

\* compactByte that moves start behind the first byte only of a U+2028 or
\* U+2029 it has escaped (start = i + 1 for start = i + 3).
compactByteShortSkip(st, src, i, escape) ==
  LET c == src[i + 1]
      r0 == [w |-> st.dst, err |-> nil]
      html == escape /\ c \in {LT, GT, AMP}
      r1 == IF html THEN EscapeHTML(r0, src, st.start, i, c) ELSE r0
      start1 == IF html THEN i + 1 ELSE st.start
      sep == IsLineSep(src, i)
      r2 == IF sep THEN EscapeLineSep(r1, src, start1, i) ELSE r1
      start2 == IF sep THEN i + 1 ELSE start1
      sv == step(st.scan, c)
      r3 == IF sv.v >= scanSkipSpace /\ sv.v # scanError
              THEN Flush(r2, src, start2, i) ELSE r2
      start3 == IF sv.v >= scanSkipSpace /\ sv.v # scanError
                  THEN i + 1 ELSE start2
  IN IF r1.err # nil THEN [st EXCEPT !.dst = r1.w, !.err = r1.err]
     ELSE IF r2.err # nil THEN [st EXCEPT !.dst = r2.w, !.err = r2.err]
     ELSE IF sv.v = scanError
       THEN [st EXCEPT !.dst = r2.w, !.scan = sv.scan, !.start = start2,
                       !.brk = TRUE]
     ELSE [dst |-> r3.w, scan |-> sv.scan, start |-> start3, err |-> r3.err,
           brk |-> FALSE]

\* One iteration of compact's loop on src[i] (i counts from 0).  st holds dst,
\* scan, start, the error of a failed append and whether the loop broke off.
compactByte(st, src, i, escape) ==
  LET c == src[i + 1]
      r0 == [w |-> st.dst, err |-> nil]
      html == escape /\ c \in {LT, GT, AMP}
      r1 == IF html THEN EscapeHTML(r0, src, st.start, i, c) ELSE r0
      start1 == IF html THEN i + 1 ELSE st.start
      sep == IsLineSep(src, i)
      r2 == IF sep THEN EscapeLineSep(r1, src, start1, i) ELSE r1
      start2 == IF sep THEN i + 3 ELSE start1
      sv == step(st.scan, c)
      r3 == IF sv.v >= scanSkipSpace /\ sv.v # scanError
              THEN Flush(r2, src, start2, i) ELSE r2
      start3 == IF sv.v >= scanSkipSpace /\ sv.v # scanError
                  THEN i + 1 ELSE start2
  IN IF r1.err # nil THEN [st EXCEPT !.dst = r1.w, !.err = r1.err]
     ELSE IF r2.err # nil THEN [st EXCEPT !.dst = r2.w, !.err = r2.err]
     ELSE IF sv.v = scanError
       THEN [st EXCEPT !.dst = r2.w, !.scan = sv.scan, !.start = start2,
                       !.brk = TRUE]
     ELSE [dst |-> r3.w, scan |-> sv.scan, start |-> start3, err |-> r3.err,
           brk |-> FALSE]

\* compact's loop over src[lo], ..., src[hi - 1] (counted from 0), run as its
\* first half and then its second half; nothing runs once the loop broke off
\* or an append failed.
RECURSIVE compactLoop(_, _, _, _, _)
compactLoop(st, src, lo, hi, escape) ==
  IF lo >= hi \/ st.brk \/ st.err # nil THEN st
  ELSE IF hi = lo + 1 THEN compactByte(st, src, lo, escape)
  ELSE Let(compactLoop(st, src, lo, (lo + hi) \div 2, escape), LAMBDA nx :
         compactLoop(nx, src, (lo + hi) \div 2, hi, escape))

\* compact(dst, src, escape): the writer after the call and the error returned.
compactEnd(st, src) ==
  IF st.err # nil THEN [w |-> st.dst, err |-> st.err]
  ELSE Let(eof(st.scan), LAMBDA e :
    IF e.v = scanError THEN [w |-> st.dst, err |-> e.scan.err]
    ELSE IF st.start < Len(src)
      THEN dstWrite(st.dst, SubSeq(src, st.start + 1, Len(src)))
    ELSE [w |-> st.dst, err |-> nil])

compact(dst, src, escape) ==
  Let(compactLoop([dst |-> dst, scan |-> reset, start |-> 0,
                   err |-> nil, brk |-> FALSE], src, 0, Len(src), escape),
      LAMBDA st : compactEnd(st, src))

compactWithRevert(dst, src, escape) ==
  LET origLen == Len(dst.buf)
  IN Let(compact(dst, src, escape), LAMBDA r :
       IF r.err # nil THEN [w |-> Truncate(r.w, origLen), err |-> r.err]
       ELSE [w |-> r.w, err |-> nil])

Compact(dst, src) == compactWithRevert(dst, src, FALSE)

(***************************************************************************)
(* newline, indentWriter.Write, Indent, IndentWriter                       *)
(***************************************************************************)
RECURSIVE indentLoop(_, _, _, _)
indentLoop(r, indent, i, depth) ==
  IF i >= depth \/ r.err # nil
    THEN r
    ELSE Let(ThenWrite(r, indent),
             LAMBDA nx : indentLoop(nx, indent, i + 1, depth))

\* newline that writes one copy of indent too many (i <= depth for i < depth).
newlineOneMore(dst, prefix, indent, depth) ==
  Let(ThenWrite(dstWriteByte(dst, LF), prefix),
      LAMBDA r : indentLoop(r, indent, 0, depth + 1))

newline(dst, prefix, indent, depth) ==
  Let(ThenWrite(dstWriteByte(dst, LF), prefix),
      LAMBDA r : indentLoop(r, indent, 0, depth))

\* An indentWriter that starts out owing an indentation (needIndent set).
indentWriterOwing(dst, prefix, indent) ==
  [dst |-> dst, prefix |-> prefix, indent |-> indent, depth |-> 0,
   scan |-> reset, needIndent |-> TRUE]

\* struct indentWriter as IndentWriter and Indent construct it.
indentWriter(dst, prefix, indent) ==
  [dst |-> dst, prefix |-> prefix, indent |-> indent, depth |-> 0,
   scan |-> reset, needIndent |-> FALSE]

\* writePunct whose closing brace or bracket always goes to a new line: the
\* check of needIndent for the empty object or array is missing.
writePunctNoEmpty(w, c) ==
  CASE c = LBRACE \/ c = LBRACKET ->
         LET r == dstWriteByte(w.dst, c)
         IN [w |-> [w EXCEPT !.needIndent = TRUE, !.dst = r.w], err |-> r.err]
    [] c = COMMA ->
         LET r1 == dstWriteByte(w.dst, c)
             r2 == IF r1.err # nil THEN r1
                   ELSE newline(r1.w, w.prefix, w.indent, w.depth)
         IN [w |-> [w EXCEPT !.dst = r2.w], err |-> r2.err]
    [] c = COLON ->
         LET r == ThenWrite(dstWriteByte(w.dst, c), <<SP>>)
         IN [w |-> [w EXCEPT !.dst = r.w], err |-> r.err]
    [] c = RBRACE \/ c = RBRACKET ->
         LET r1 == newline(w.dst, w.prefix, w.indent, w.depth - 1)
             r2 == ThenWrite(r1, <<c>>)
         IN [w |-> [w EXCEPT !.depth = w.depth - 1, !.dst = r2.w],
             err |-> r2.err]
    [] OTHER ->
         LET r == dstWriteByte(w.dst, c)
         IN [w |-> [w EXCEPT !.dst = r.w], err |-> r.err]

\* The switch of Write on a byte the scanner classified as punctuation.
writePunct(w, c) ==
  CASE c = LBRACE \/ c = LBRACKET ->
         LET r == dstWriteByte(w.dst, c)
         IN [w |-> [w EXCEPT !.needIndent = TRUE, !.dst = r.w], err |-> r.err]
    [] c = COMMA ->
         LET r1 == dstWriteByte(w.dst, c)
             r2 == IF r1.err # nil THEN r1
                   ELSE newline(r1.w, w.prefix, w.indent, w.depth)
         IN [w |-> [w EXCEPT !.dst = r2.w], err |-> r2.err]
    [] c = COLON ->
         LET r == ThenWrite(dstWriteByte(w.dst, c), <<SP>>)
         IN [w |-> [w EXCEPT !.dst = r.w], err |-> r.err]
    [] c = RBRACE \/ c = RBRACKET ->
         IF w.needIndent
           THEN LET r == dstWriteByte(w.dst, c)
                IN [w |-> [w EXCEPT !.needIndent = FALSE, !.dst = r.w],
                    err |-> r.err]
           ELSE LET r1 == newline(w.dst, w.prefix, w.indent, w.depth - 1)
                    r2 == ThenWrite(r1, <<c>>)
                IN [w |-> [w EXCEPT !.depth = w.depth - 1, !.dst = r2.w],
                    err |-> r2.err]
    [] OTHER ->
         LET r == dstWriteByte(w.dst, c)
         IN [w |-> [w EXCEPT !.dst = r.w], err |-> r.err]

\* writeByte that drops the bytes behind the top-level value (scanEnd) as it
\* drops scanSkipSpace.
writeByteDropEnd(w, c) ==
  LET sv == step([w.scan EXCEPT !.bytes = w.scan.bytes + 1], c)
      v == sv.v
      w1 == [w EXCEPT !.scan = sv.scan]
      owed == w1.needIndent /\ v # scanEndObject /\ v # scanEndArray
      r2 == IF owed
              THEN newline(w1.dst, w1.prefix, w1.indent, w1.depth + 1)
              ELSE [w |-> w1.dst, err |-> nil]
      w2 == IF owed
              THEN [w1 EXCEPT !.needIndent = FALSE, !.depth = w1.depth + 1,
                              !.dst = r2.w]
              ELSE w1
  IN IF v = scanSkipSpace \/ v = scanEnd
       THEN [w |-> w1, err |-> nil, brk |-> FALSE]
     ELSE IF v = scanError THEN [w |-> w1, err |-> nil, brk |-> TRUE]
     ELSE IF r2.err # nil THEN [w |-> w2, err |-> r2.err, brk |-> FALSE]
     ELSE IF v = scanContinue
       THEN LET r == dstWriteByte(w2.dst, c)
            IN [w |-> [w2 EXCEPT !.dst = r.w], err |-> r.err, brk |-> FALSE]
     ELSE LET p == writePunct(w2, c)
          IN [w |-> p.w, err |-> p.err, brk |-> FALSE]

\* writeByte without the early copy of scanContinue bytes: the bytes inside
\* tokens go through the punctuation switch.
writeByteNoContinue(w, c) ==
  LET sv == step([w.scan EXCEPT !.bytes = w.scan.bytes + 1], c)
      v == sv.v
      w1 == [w EXCEPT !.scan = sv.scan]
      owed == w1.needIndent /\ v # scanEndObject /\ v # scanEndArray
      r2 == IF owed
              THEN newline(w1.dst, w1.prefix, w1.indent, w1.depth + 1)
              ELSE [w |-> w1.dst, err |-> nil]
      w2 == IF owed
              THEN [w1 EXCEPT !.needIndent = FALSE, !.depth = w1.depth + 1,
                              !.dst = r2.w]
              ELSE w1
  IN IF v = scanSkipSpace THEN [w |-> w1, err |-> nil, brk |-> FALSE]
     ELSE IF v = scanError THEN [w |-> w1, err |-> nil, brk |-> TRUE]
     ELSE IF r2.err # nil THEN [w |-> w2, err |-> r2.err, brk |-> FALSE]
     ELSE LET p == writePunct(w2, c)
          IN [w |-> p.w, err |-> p.err, brk |-> FALSE]

\* writeByte that does not look at the result of an append: Write goes on
\* behind an append that failed.
writeByteIgnoreErr(w, c) ==
  LET sv == step([w.scan EXCEPT !.bytes = w.scan.bytes + 1], c)
      v == sv.v
      w1 == [w EXCEPT !.scan = sv.scan]
      owed == w1.needIndent /\ v # scanEndObject /\ v # scanEndArray
      r2 == IF owed
              THEN newline(w1.dst, w1.prefix, w1.indent, w1.depth + 1)
              ELSE [w |-> w1.dst, err |-> nil]
      w2 == IF owed
              THEN [w1 EXCEPT !.needIndent = FALSE, !.depth = w1.depth + 1,
                              !.dst = r2.w]
              ELSE w1
  IN IF v = scanSkipSpace THEN [w |-> w1, err |-> nil, brk |-> FALSE]
     ELSE IF v = scanError THEN [w |-> w1, err |-> nil, brk |-> TRUE]
     ELSE IF v = scanContinue
       THEN LET r == dstWriteByte(w2.dst, c)
            IN [w |-> [w2 EXCEPT !.dst = r.w], err |-> nil, brk |-> FALSE]
     ELSE LET p == writePunct(w2, c)
          IN [w |-> p.w, err |-> nil, brk |-> FALSE]

\* One iteration of Write's loop on byte c: the writer after it, the error of a
\* failed append (Write returns it at once) and whether the loop broke off.
writeByte(w, c) ==
  LET sv == step([w.scan EXCEPT !.bytes = w.scan.bytes + 1], c)
      v == sv.v
      w1 == [w EXCEPT !.scan = sv.scan]
      owed == w1.needIndent /\ v # scanEndObject /\ v # scanEndArray
      r2 == IF owed
              THEN newline(w1.dst, w1.prefix, w1.indent, w1.depth + 1)
              ELSE [w |-> w1.dst, err |-> nil]
      w2 == IF owed
              THEN [w1 EXCEPT !.needIndent = FALSE, !.depth = w1.depth + 1,
                              !.dst = r2.w]
              ELSE w1
  IN IF v = scanSkipSpace THEN [w |-> w1, err |-> nil, brk |-> FALSE]
     ELSE IF v = scanError THEN [w |-> w1, err |-> nil, brk |-> TRUE]
     ELSE IF r2.err # nil THEN [w |-> w2, err |-> r2.err, brk |-> FALSE]
     ELSE IF v = scanContinue
       THEN LET r == dstWriteByte(w2.dst, c)
            IN [w |-> [w2 EXCEPT !.dst = r.w], err |-> r.err, brk |-> FALSE]
     ELSE LET p == writePunct(w2, c)
          IN [w |-> p.w, err |-> p.err, brk |-> FALSE]

\* Write's loop over src[lo], ..., src[hi - 1] (counted from 0), run as its
\* first half and then its second half; nothing runs once the loop broke off
\* or an append failed.
RECURSIVE writeLoop(_, _, _, _)
writeLoop(st, src, lo, hi) ==
  IF lo >= hi \/ st.brk \/ st.err # nil THEN st
  ELSE IF hi = lo + 1
    THEN Let(writeByte(st.w, src[lo + 1]), LAMBDA b :
           [w |-> b.w, n |-> st.n + 1, err |-> b.err, brk |-> b.brk])
  ELSE Let(writeLoop(st, src, lo, (lo + hi) \div 2), LAMBDA nx :
         writeLoop(nx, src, (lo + hi) \div 2, hi))

\* writeEnd without the call of eof: only the error of an append is returned.
writeEndNoEof(st) == [w |-> st.w, n |-> st.n, err |-> st.err]

\* (w *indentWriter) Write(src): the writer after the call, n and the error.
writeEnd(st) ==
  IF st.err # nil THEN [w |-> st.w, n |-> st.n, err |-> st.err]
  ELSE Let(eof(st.w.scan), LAMBDA e :
    IF e.v = scanError
      THEN [w |-> [st.w EXCEPT !.scan = e.scan], n |-> st.n, err |-> e.scan.err]
      ELSE [w |-> [st.w EXCEPT !.scan = e.scan], n |-> st.n, err |-> nil])

Write(w, src) ==
  Let(writeLoop([w |-> w, n |-> 0, err |-> nil, brk |-> FALSE], src, 0,
                Len(src)),
      LAMBDA st : writeEnd(st))

\* Indent that forgets dst.Truncate(origLen) when Write fails.
IndentNoRevert(dst, src, prefix, indent) ==
  Let(Write(indentWriter(dst, prefix, indent), src), LAMBDA r :
       [w |-> r.w.dst, err |-> r.err])

Indent(dst, src, prefix, indent) ==
  LET origLen == Len(dst.buf)
  IN Let(Write(indentWriter(dst, prefix, indent), src), LAMBDA r :
       IF r.err # nil THEN [w |-> Truncate(r.w.dst, origLen), err |-> r.err]
       ELSE [w |-> r.w.dst, err |-> nil])

IndentWriter(sink, prefix, indent) == indentWriter(sink, prefix, indent)

(***************************************************************************)
(* The documents handed to the operations: every byte sequence over        *)
(* Alphabet of at most MaxLen bytes that the scanner reads without         *)
(* stopping before its last byte (bytes behind the byte at which the       *)
(* scanner stops are never looked at), and some longer sample documents.   *)
(***************************************************************************)
MaxLen == 4

Alphabet == {LBRACE, RBRACE, LBRACKET, RBRACKET, COMMA, COLON, QUOTE, DIGIT1, SP, LF}

\* The scanner after s has read src[lo], ..., src[hi - 1] (counted from 0).
RECURSIVE scanAll(_, _, _, _)
scanAll(s, src, lo, hi) ==
  IF lo >= hi THEN s
  ELSE IF hi = lo + 1 THEN step(s, src[lo + 1]).scan
  ELSE Let(scanAll(s, src, lo, (lo + hi) \div 2), LAMBDA nx :
         scanAll(nx, src, (lo + hi) \div 2, hi))

RECURSIVE Docs(_, _)
Docs(alphabet, k) ==
  IF k = 0 THEN {<<>>}
  ELSE Let(Docs(alphabet, k - 1), LAMBDA prev :
         prev \cup
         {Append(q, c) :
            q \in {p \in prev : Len(p) = k - 1
                                 /\ scanAll(reset, p, 0, Len(p)).step # "stateError"},
            c \in alphabet})

\* {"a":[1,2]}, the document of Indent's documented layout.
SampleNested ==
  <<LBRACE, QUOTE, Chr("a"), QUOTE, COLON, LBRACKET, DIGIT1, COMMA, DIGIT1 + 1,
    RBRACKET, RBRACE>>

\* "<E2 80 A8>": a string holding a raw U+2028.
SampleLineSep == <<QUOTE, UTF8E2, UTF880, UTF8A8, QUOTE>>

Samples ==
  { SampleNested,
    SampleNested \o <<LF>>,
    SubSeq(SampleNested, 1, 10),
    SampleLineSep,
    \* [ "<<E2 80 A9>&" ]
    <<LBRACKET, SP, QUOTE, LT, UTF8E2, UTF880, UTF8A9, AMP, QUOTE, SP, RBRACKET>>,
    \* {"<":">&"}
    <<LBRACE, QUOTE, LT, QUOTE, COLON, QUOTE, GT, AMP, QUOTE, RBRACE>>,
    \* {"<" : [ { } , " [,] " ] } followed by a space and a newline
    <<LBRACE, QUOTE, LT, QUOTE, SP, COLON, SP, LBRACKET, SP, LBRACE, SP, RBRACE,
      SP, COMMA, SP, QUOTE, SP, LBRACKET, COMMA, RBRACKET, SP, QUOTE, SP,
      RBRACKET, SP, RBRACE, SP, LF>>,
    \* {"a":{"a":[]},"a":-1.1e+1}
    <<LBRACE, QUOTE, Chr("a"), QUOTE, COLON, LBRACE, QUOTE, Chr("a"), QUOTE,
      COLON, LBRACKET, RBRACKET, RBRACE, COMMA, QUOTE, Chr("a"), QUOTE, COLON,
      MINUS, DIGIT1, DOT, DIGIT1, Chr("e"), PLUS, DIGIT1, RBRACE>>,
    \* [true,"\"\u00aF",[[1]]] with a tab and a carriage return behind it
    <<LBRACKET, Chr("t"), Chr("r"), Chr("u"), Chr("e"), COMMA, QUOTE, BACKSLASH,
      QUOTE, BACKSLASH, Chr("u"), DIGIT0, DIGIT0, Chr("a"), Chr("F"), QUOTE,
      COMMA, LBRACKET, LBRACKET, DIGIT1, RBRACKET, RBRACKET, RBRACKET, TAB, CR>>,
    \* 111
    <<DIGIT1, DIGIT1, DIGIT1>>,
    \* [1,1}
    <<LBRACKET, DIGIT1, COMMA, DIGIT1, RBRACE>>,
    \* "&<E2 80 A8><E2 80 A9><": escapes next to each other
    <<QUOTE, AMP, UTF8E2, UTF880, UTF8A8, UTF8E2, UTF880, UTF8A9, LT, QUOTE>>,
    \* }11 and 1 11: bytes behind the byte the scanner stops at
    <<RBRACE, DIGIT1, DIGIT1>>,
    <<DIGIT1, SP, DIGIT1, DIGIT1>> }

Inputs == Docs(Alphabet, MaxLen) \cup Samples

\* The documents written to a stream, chunk by chunk.
MaxStreamLen == 3

StreamInputs == Docs(Alphabet, MaxStreamLen) \cup Samples

\* What dst holds before a call.
InitialDst == {<<>>, <<LBRACKET, LF>>}

\* The prefix and indent strings of a call.
Formats ==
  { [prefix |-> <<>>, indent |-> <<SP, SP>>],
    [prefix |-> <<TAB>>, indent |-> <<SP>>] }


(***************************************************************************)
(* State.  src is the document; dst the caller's bytes.Buffer and orig     *)
(* what it held before the call; op the call made last and err what it     *)
(* returned; prefix and indent the strings of the call; out2 a second      *)
(* buffer; w the streaming indentWriter, pos the number of bytes of src    *)
(* written to it so far, n and err the results of its last Write.          *)
(***************************************************************************)
VARIABLES src, dst, orig, op, err, prefix, indent, out2, w, pos, n

vars == <<src, dst, orig, op, err, prefix, indent, out2, w, pos, n>>

\* The bytes a call appended to dst.
Appended == SubSeq(dst.buf, Len(orig) + 1, Len(dst.buf))

Init ==
  /\ src \in Inputs
  /\ \E b \in InitialDst : dst = Buffer(b) /\ orig = b
  /\ op = "init"
  /\ err = nil
  /\ prefix = <<>>
  /\ indent = <<>>
  /\ out2 = <<>>
  /\ w = IndentWriter(Buffer(<<>>), <<>>, <<>>)
  /\ pos = 0
  /\ n = 0

\* Compact(&dst, src)
CompactCall ==
  /\ op = "init"
  /\ \E r \in {Compact(dst, src)} : dst' = r.w /\ err' = r.err
  /\ op' = "Compact"
  /\ UNCHANGED <<src, orig, prefix, indent, out2, w, pos, n>>

\* compactWithRevert(&dst, src, true), the encoder's call with escaping on.
CompactEscapeCall ==
  /\ op = "init"
  /\ \E r \in {compactWithRevert(dst, src, TRUE)} :
       dst' = r.w /\ err' = r.err
  /\ op' = "compactEscape"
  /\ UNCHANGED <<src, orig, prefix, indent, out2, w, pos, n>>

\* Indent(&dst, src, prefix, indent)
IndentCall ==
  /\ op = "init"
  /\ \E f \in Formats :
       /\ prefix' = f.prefix
       /\ indent' = f.indent
       /\ \E r \in {Indent(dst, src, f.prefix, f.indent)} :
            dst' = r.w /\ err' = r.err
  /\ op' = "Indent"
  /\ UNCHANGED <<src, orig, out2, w, pos, n>>

\* Compact(&out2, indented), on what a successful Indent appended to dst.
RecompactCall ==
  /\ op = "Indent"
  /\ err = nil
  /\ \E r \in {Compact(Buffer(out2), Appended)} :
       out2' = r.w.buf /\ err' = r.err
  /\ op' = "Recompact"
  /\ UNCHANGED <<src, dst, orig, prefix, indent, w, pos, n>>

Next == CompactCall \/ CompactEscapeCall \/ IndentCall \/ RecompactCall

Spec == Init /\ [][Next]_vars

(***************************************************************************)
(* Streaming: the writer of IndentWriter receives src in consecutive       *)
(* chunks, one Write call per chunk.                                       *)
(***************************************************************************)
InitStream ==
  /\ src \in StreamInputs
  /\ dst = Buffer(<<>>)
  /\ orig = <<>>
  /\ op = "IndentWriter"
  /\ err = nil
  /\ \E f \in Formats :
       /\ prefix = f.prefix
       /\ indent = f.indent
       /\ w = IndentWriter(Buffer(<<>>), f.prefix, f.indent)
  /\ out2 = <<>>
  /\ pos = 0
  /\ n = 0

\* w.Write(src[pos : pos+k])
WriteCall ==
  /\ op \in {"IndentWriter", "Write"}
  /\ \E k \in 0..(Len(src) - pos) :
       /\ \E r \in {Write(w, SubSeq(src, pos + 1, pos + k))} :
            w' = r.w /\ n' = r.n /\ err' = r.err
       /\ pos' = pos + k
  /\ op' = "Write"
  /\ UNCHANGED <<src, dst, orig, prefix, indent, out2>>

NextStream == WriteCall

SpecStream == InitStream /\ [][NextStream]_vars

(***************************************************************************)
(* A sink that can fail: compact and the writer of IndentWriter append to  *)
(* a sink that refuses every append after its first quota ones (quota -1:  *)
(* none).  compact is called once on src; the writer receives src in       *)
(* consecutive chunks.                                                     *)
(***************************************************************************)
MaxSinkLen == 2

MaxQuota == 5

SinkSamples ==
  { SampleNested,
    \* [{}, 1 ]
    <<LBRACKET, LBRACE, RBRACE, COMMA, SP, DIGIT1, SP, RBRACKET>>,
    \* "<E2 80 A8>"
    <<QUOTE, LT, UTF8E2, UTF880, UTF8A8, QUOTE>>,
    \* [1}1
    <<LBRACKET, DIGIT1, RBRACE, DIGIT1>> }

SinkInputs == Docs(Alphabet, MaxSinkLen) \cup SinkSamples

InitSink ==
  /\ src \in SinkInputs
  /\ \E q \in (0 - 1)..MaxQuota :
       /\ dst = Sink(q)
       /\ \E f \in Formats :
            /\ prefix = f.prefix
            /\ indent = f.indent
            /\ w = IndentWriter(Sink(q), f.prefix, f.indent)
  /\ orig = <<>>
  /\ op = "init"
  /\ err = nil
  /\ out2 = <<>>
  /\ pos = 0
  /\ n = 0

\* compact(dst, src, escape) on the sink.
CompactSinkCall ==
  /\ op = "init"
  /\ \E escape \in BOOLEAN :
       /\ \E r \in {compact(dst, src, escape)} : dst' = r.w /\ err' = r.err
       /\ op' = IF escape THEN "compactEscape" ELSE "compact"
  /\ UNCHANGED <<src, orig, prefix, indent, out2, w, pos, n>>

\* w.Write(src[pos : pos+k]) on the writer over the sink.
WriteSinkCall ==
  /\ op \in {"init", "Write"}
  /\ \E k \in 0..(Len(src) - pos) :
       /\ \E r \in {Write(w, SubSeq(src, pos + 1, pos + k))} :
            w' = r.w /\ n' = r.n /\ err' = r.err
       /\ pos' = pos + k
  /\ op' = "Write"
  /\ UNCHANGED <<src, dst, orig, prefix, indent, out2>>

NextSink == CompactSinkCall \/ WriteSinkCall

SpecSink == InitSink /\ [][NextSink]_vars

(***************************************************************************)
(* What the documentation promises, stated on the bytes alone: which bytes *)
(* of a document lie in string literals, which white space is between      *)
(* tokens, and the layout of an indented document.  None of it uses the    *)
(* scanner.                                                                *)
(***************************************************************************)
IsWs(c) == c \in {SP, TAB, CR, LF}

\* m: 0 outside a string, 1 inside one, 2 behind a backslash inside one.
MaskNext(m, c) ==
  IF m = 0 THEN (IF c = QUOTE THEN 1 ELSE 0)
  ELSE IF m = 2 THEN 1
  ELSE IF c = QUOTE THEN 0
  ELSE IF c = BACKSLASH THEN 2 ELSE 1

\* The marks of x[lo..hi] read from m, and the m behind them.
RECURSIVE MaskFrom(_, _, _, _)
MaskFrom(x, lo, hi, m) ==
  IF lo > hi THEN [mask |-> <<>>, m |-> m]
  ELSE IF lo = hi
    THEN [mask |-> <<m # 0 \/ x[lo] = QUOTE>>, m |-> MaskNext(m, x[lo])]
  ELSE Let(MaskFrom(x, lo, (lo + hi) \div 2, m), LAMBDA a :
         Let(MaskFrom(x, (lo + hi) \div 2 + 1, hi, a.m), LAMBDA b :
           [mask |-> a.mask \o b.mask, m |-> b.m]))

\* For each byte of x, whether it belongs to a string literal (quotes included).
StrMask(x) == MaskFrom(x, 1, Len(x), 0).mask

\* The sequences ss[lo], ..., ss[hi] joined.
RECURSIVE Flat(_, _, _)
Flat(ss, lo, hi) ==
  IF lo > hi THEN <<>>
  ELSE IF lo = hi THEN ss[lo]
  ELSE Flat(ss, lo, (lo + hi) \div 2) \o Flat(ss, (lo + hi) \div 2 + 1, hi)

Join(ss) == Flat(ss, 1, Len(ss))

\* The bytes of x at the indices in keep, in order.
Pick(x, keep) ==
  Let(keep, LAMBDA k :
    Join([i \in 1..Len(x) |-> IF i \in k THEN <<x[i]>> ELSE <<>>]))

\* Indices of the white space of x between tokens, and of that in strings.
WsBetween(x) ==
  Let(StrMask(x), LAMBDA mask : {i \in 1..Len(x) : IsWs(x[i]) /\ ~mask[i]})

WsInStrings(x) ==
  Let(StrMask(x), LAMBDA mask : {i \in 1..Len(x) : IsWs(x[i]) /\ mask[i]})

\* x without the white space between its tokens.
Elide(x) == Pick(x, (1..Len(x)) \ WsBetween(x))

\* The white-space bytes of x, in order.
WsOnly(x) == Pick(x, {i \in 1..Len(x) : IsWs(x[i])})

\* The '<', '>' and '&' bytes of x, in order.
HtmlBytes(x) == Pick(x, {i \in 1..Len(x) : x[i] \in {LT, GT, AMP}})

\* The white space at the end of x.
TrailingWs(x) ==
  LET k == Cardinality({i \in 1..Len(x) : \A j \in i..Len(x) : IsWs(x[j])})
  IN SubSeq(x, Len(x) - k + 1, Len(x))

EndsWithLF(x) == Len(x) > 0 /\ x[Len(x)] = LF

\* x holds a raw U+2028 or U+2029.
LineSepAt(x, i) ==
  i + 2 <= Len(x) /\ x[i] = UTF8E2 /\ x[i + 1] = UTF880
                  /\ x[i + 2] \in {UTF8A8, UTF8A9}

HasLineSep(x) == \E i \in 1..Len(x) : LineSepAt(x, i)

\* x with each '<', '>', '&' replaced by its six-byte escape (backslash, u, 0, 0,
\* and the two lower-case hex digits 3c, 3e or 26).
HtmlEscaped(x) ==
  Join([i \in 1..Len(x) |->
          CASE x[i] = LT -> <<92, 117, 48, 48, 51, 99>>
            [] x[i] = GT -> <<92, 117, 48, 48, 51, 101>>
            [] x[i] = AMP -> <<92, 117, 48, 48, 50, 54>>
            [] OTHER -> <<x[i]>>])

\* x with each raw U+2028 / U+2029 replaced by backslash, u, 2, 0, 2 and 8 / 9.
LineSepEscaped(x) ==
  Join([i \in 1..Len(x) |->
          IF LineSepAt(x, i)
            THEN <<92, 117, 50, 48, 50, IF x[i + 2] = UTF8A8 THEN 56 ELSE 57>>
          ELSE IF (i > 1 /\ LineSepAt(x, i - 1)) \/ (i > 2 /\ LineSepAt(x, i - 2))
            THEN <<>>
          ELSE <<x[i]>>])

RECURSIVE Repeat(_, _)
Repeat(s, k) == IF k <= 0 THEN <<>> ELSE s \o Repeat(s, k - 1)

\* The significant bytes of x: all but the white space between tokens.
Sig(x, mask) == {i \in 1..Len(x) : mask[i] \/ ~IsWs(x[i])}

\* The last significant index before i, 0 if there is none.
PrevSig(x, mask, i) ==
  LET S == {j \in Sig(x, mask) : j < i}
  IN IF S = {} THEN 0 ELSE CHOOSE j \in S : \A k \in S : k <= j

IsOpener(x, mask, j) == j > 0 /\ ~mask[j] /\ x[j] \in {LBRACE, LBRACKET}

IsCloser(x, mask, j) == j > 0 /\ ~mask[j] /\ x[j] \in {RBRACE, RBRACKET}

IsComma(x, mask, j) == j > 0 /\ ~mask[j] /\ x[j] = COMMA

\* The number of objects and arrays open in front of byte i.
OpenBefore(x, mask, i) ==
  Cardinality({j \in 1..(i - 1) : IsOpener(x, mask, j)})
    - Cardinality({j \in 1..(i - 1) : IsCloser(x, mask, j)})

\* The closers of x that close an empty object or array.
EmptyClosers(x, mask) ==
  {i \in 1..Len(x) : IsCloser(x, mask, i)
                       /\ IsOpener(x, mask, PrevSig(x, mask, i))}

\* What the documented layout puts out for byte i of the valid document x.
Piece(x, mask, i, pfx, ind) ==
  LET c == x[i]
      p == PrevSig(x, mask, i)
      k == OpenBefore(x, mask, i)
      line(d) == <<LF>> \o pfx \o Repeat(ind, d)
  IN IF ~mask[i] /\ IsWs(c)
       THEN (IF \E j \in Sig(x, mask) : j > i THEN <<>> ELSE <<c>>)
     ELSE IF IsCloser(x, mask, i)
       THEN (IF IsOpener(x, mask, p) THEN <<c>> ELSE line(k - 1) \o <<c>>)
     ELSE IF ~mask[i] /\ c = COLON THEN <<c, SP>>
     ELSE IF IsOpener(x, mask, p) \/ IsComma(x, mask, p)
       THEN line(k) \o <<c>>
     ELSE <<c>>

Pretty(x, pfx, ind) ==
  Let(StrMask(x), LAMBDA mask :
    Join([i \in 1..Len(x) |-> Piece(x, mask, i, pfx, ind)]))

\* The six lines the documentation shows for {"a":[1,2]} indented by two spaces.
SixLines ==
  <<LBRACE, LF,
    SP, SP, QUOTE, Chr("a"), QUOTE, COLON, SP, LBRACKET, LF,
    SP, SP, SP, SP, DIGIT1, COMMA, LF,
    SP, SP, SP, SP, DIGIT1 + 1, LF,
    SP, SP, RBRACKET, LF,
    RBRACE>>

(***************************************************************************)
(* The claims.                                                             *)
(***************************************************************************)

\* C1: when Compact or Indent returns an error, dst holds exactly the bytes
\* it held before the call.
C1_Atomicity ==
  (op \in {"Compact", "compactEscape", "Indent"} /\ err # nil)
    => dst.buf = orig

\* An Indent call that failed on a non-empty dst after Write had already
\* appended output to it.
C1_Witness ==
  /\ op = "Indent"
  /\ err # nil
  /\ orig # <<>>
  /\ dst.buf = orig
  /\ Len(Write(indentWriter(Buffer(orig), prefix, indent), src).w.dst.buf)
       > Len(orig)

\* C2: however src is split into consecutive chunks, the sink of an
\* IndentWriter that received all of them holds the bytes that one Write of
\* the whole of src produces.
C2_StreamingEquivalence ==
  (op = "Write" /\ pos = Len(src))
    => w.dst.buf
         = Write(IndentWriter(Buffer(<<>>), prefix, indent), src).w.dst.buf

\* C3: Compact of what Indent made of a valid document succeeds and yields
\* the bytes Compact yields on the document itself.
C3_RoundTrip ==
  op = "Recompact"
    => /\ err = nil
       /\ Compact(Buffer(<<>>), src).err = nil
       /\ out2 = Compact(Buffer(<<>>), src).w.buf

\* A round trip of a document that Indent made longer and Compact shorter.
C3_Witness ==
  /\ op = "Recompact"
  /\ err = nil
  /\ Len(Appended) > Len(src)
  /\ Len(out2) < Len(src)
  /\ \E i \in 1..Len(src) : src[i] = COLON

\* C4: Compact appends to dst a copy of a valid document that has no white
\* space between its tokens.
C4_CompactIdempotent ==
  (op = "Compact" /\ err = nil /\ Elide(src) = src) => Appended = src

\* C5: Compact of a valid document drops every white-space byte between
\* tokens and keeps every white-space byte of a string literal, in place: the
\* white space of the output is that of the strings, and (the document having
\* no raw U+2028 / U+2029, which compact rewrites) the output is the document
\* without the white space between its tokens.
C5_ElidesInsignificantSpace ==
  (op = "Compact" /\ err = nil)
    => /\ WsOnly(Appended) = Pick(src, WsInStrings(src))
       /\ ~HasLineSep(src) => Appended = Elide(src)

\* A compacted document with white space both between tokens and in a string.
C5_Witness ==
  /\ op = "Compact"
  /\ err = nil
  /\ WsInStrings(src) # {}
  /\ WsBetween(src) # {}
  /\ Len(Appended) = Len(src) - Cardinality(WsBetween(src))

\* C6 as stated: with escaping on, the output of compact on a valid document
\* with '<', '>' or '&' in it is the document without the white space
\* between tokens and with each of these bytes replaced by its escape, every
\* other byte unchanged; with escaping off they are in the output as they were.
C6_EscapesOnlyHtml ==
  /\ (op = "compactEscape" /\ err = nil /\ HtmlBytes(src) # <<>>)
       => Appended = HtmlEscaped(Elide(src))
  /\ (op = "Compact" /\ err = nil /\ HtmlBytes(src) # <<>>)
       => HtmlBytes(Appended) = HtmlBytes(src)

\* C6 as amended: with escaping on, the output has no raw '<', '>' or '&' and
\* is the document without the white space between tokens, with each of
\* these bytes and each raw U+2028 / U+2029 replaced by its escape; with
\* escaping off the '<', '>' and '&' are in the output as they were.
C6_EscapesHtmlAndLineSep ==
  /\ (op = "compactEscape" /\ err = nil)
       => /\ Appended = LineSepEscaped(HtmlEscaped(Elide(src)))
          /\ HtmlBytes(Appended) = <<>>
  /\ (op = "Compact" /\ err = nil)
       => HtmlBytes(Appended) = HtmlBytes(src)

\* Escaping on, a valid document with '<', '>' and '&' in a string.
C6_Witness ==
  /\ op = "compactEscape"
  /\ err = nil
  /\ \A c \in {LT, GT, AMP} : \E i \in 1..Len(src) : src[i] = c
  /\ Len(Appended) > Len(src)

\* C7: Indent lays a valid document out with each element of an object or
\* array on a line of its own behind prefix and one indent per open container,
\* and each closer of a non-empty container on a line one indent less deep;
\* {"a":[1,2]} indented by two spaces is the six documented lines.
C7_NestedIndentation ==
  (op = "Indent" /\ err = nil)
    => /\ Appended = Pretty(src, prefix, indent)
       /\ (src = SampleNested /\ prefix = <<>> /\ indent = <<SP, SP>>)
            => Appended = SixLines

\* {"a":[1,2]} indented by two spaces.
C7_Witness ==
  /\ op = "Indent"
  /\ err = nil
  /\ src = SampleNested
  /\ indent = <<SP, SP>>
  /\ Appended = SixLines

\* The indentWriter after the loop of Write has consumed the first k bytes
\* of src.
After(k) ==
  writeLoop([w |-> indentWriter(Buffer(<<>>), prefix, indent), n |-> 0,
             err |-> nil, brk |-> FALSE], src, 0, k).w

\* C8: Indent puts the closer of an empty object or array right behind its
\* opener, whatever white space src has between the two, and the depth used
\* afterwards is the depth in front of the empty container.
C8_EmptyContainers ==
  (op = "Indent" /\ err = nil /\ indent # <<>>)
    => \A i \in EmptyClosers(src, StrMask(src)) :
         \A a \in {After(PrevSig(src, StrMask(src), i))}, b \in {After(i)} :
           /\ b.dst.buf = a.dst.buf \o <<src[i]>>
           /\ a.dst.buf[Len(a.dst.buf)] = src[PrevSig(src, StrMask(src), i)]
           /\ b.depth = a.depth
           /\ ~b.needIndent
           /\ SubSeq(Appended, 1, Len(b.dst.buf)) = b.dst.buf

\* An indented document with a nested empty container that has white space
\* between its brackets in src.
C8_Witness ==
  /\ op = "Indent"
  /\ err = nil
  /\ indent # <<>>
  /\ \E i \in EmptyClosers(src, StrMask(src)) :
       /\ OpenBefore(src, StrMask(src), i) > 1
       /\ PrevSig(src, StrMask(src), i) < i - 1

\* C9: the white space behind the last token of a valid document is the white
\* space at the end of what Indent appends.
C9_IndentKeepsTrailingSpace ==
  (op = "Indent" /\ err = nil) => TrailingWs(Appended) = TrailingWs(src)

\* An indented document that ends in white space and a newline.
C9_Witness ==
  /\ op = "Indent"
  /\ err = nil
  /\ EndsWithLF(src)
  /\ Len(TrailingWs(src)) > 1
  /\ EndsWithLF(Appended)

\* C10 as stated: the output of Compact on a valid document ends with a
\* newline if the document does, and has no trailing white space if the
\* document has none.
C10_CompactKeepsTrailingNewline ==
  (op = "Compact" /\ err = nil)
    => /\ EndsWithLF(src) => EndsWithLF(Appended)
       /\ TrailingWs(src) = <<>> => TrailingWs(Appended) = <<>>

\* C10 as amended: the output of Compact on a valid document has no trailing
\* white space, whether the document ends with a newline or not.
C10_CompactDropsTrailingSpace ==
  (op = "Compact" /\ err = nil) => TrailingWs(Appended) = <<>>

\* A compacted document that ended with a newline.
C10_Witness ==
  /\ op = "Compact"
  /\ err = nil
  /\ EndsWithLF(src)
  /\ Appended # <<>>

\* The number of white-space bytes in front of the first token of x.
LeadingWs(x) ==
  Cardinality({i \in 1..Len(x) : \A j \in 1..i : IsWs(x[j])})

\* C11: what Indent appends for a valid document starts with the first byte
\* of the document that is not white space: the white space in front of the
\* first token is dropped and no newline, prefix or indent is put in its place.
C11_NoLeadingMargin ==
  (op = "Indent" /\ err = nil)
    => /\ LeadingWs(src) < Len(src)
       /\ Appended # <<>>
       /\ Appended[1] = src[LeadingWs(src) + 1]
       /\ ~IsWs(Appended[1])

\* A valid document with white space in front, indented with a prefix.
C11_Witness ==
  /\ op = "Indent"
  /\ err = nil
  /\ LeadingWs(src) > 1
  /\ prefix # <<>>
  /\ Appended[1] = src[LeadingWs(src) + 1]

\* C12: a parsing error that the scanner of an IndentWriter holds after a
\* Write call is the error the next Write call on that writer returns.
C12_ErrorOnNextWrite ==
  [][(op = "Write" /\ w.scan.err # nil) => err' = w.scan.err]_vars

\* C13: once a Write call on a stream has returned a syntax error, every
\* later Write call on it, with any argument, the empty one included, returns
\* that same error: never nil, never another error.
C13_StickyError ==
  [][(op = "Write" /\ err # nil) => (err' # nil /\ err' = err)]_vars

\* The number of objects and arrays the scanner has open.
OpenCount(s) == Len(s.parseState)

\* src is a valid document: one Write of the whole of it returns no error.
Valid(x) == Write(IndentWriter(Buffer(<<>>), prefix, indent), x).err = nil

\* C16: the end of input is looked for once, behind the last byte: a Write
\* call whose chunk ends inside a valid document, with a container open or
\* inside a token, returns no error and leaves the scanner as it was behind
\* the last byte of the chunk.
C16_EofOnlyAtEnd ==
  (op = "Write" /\ 0 < pos /\ pos < Len(src) /\ Valid(src)
     /\ ~After(pos).scan.endTop
     /\ (OpenCount(After(pos).scan) > 0 \/ After(pos).scan.step # "stateBeginValue"))
    => /\ err = nil
       /\ w.scan = After(pos).scan

\* C19: after every Write call, on any input cut into any chunks, depth is
\* not negative and depth, plus one if an indentation is owed, is the number
\* of objects and arrays the scanner has open; behind a complete valid
\* document depth is 0 and no indentation is owed.
C19_DepthBookkeeping ==
  op = "Write"
    => /\ w.depth >= 0
       /\ w.depth + (IF w.needIndent THEN 1 ELSE 0) = OpenCount(w.scan)
       /\ (pos = Len(src) /\ err = nil) => (w.depth = 0 /\ ~w.needIndent)

IsPrefix(a, b) == Len(a) <= Len(b) /\ SubSeq(b, 1, Len(a)) = a

C20_WriteResult ==
  [][op' = "Write"
       => /\ 0 <= n' /\ n' <= pos' - pos
          /\ n' = w'.scan.bytes - w.scan.bytes
          /\ (n' < pos' - pos) => err' # nil
          /\ (w.scan.err = nil /\ w'.scan.err # nil) => err' # nil]_vars

\* A first Write call of the whole of src that a syntax error stopped in
\* front of the last byte, with output already in the sink.
C20_Witness ==
  /\ op = "Write"
  /\ err # nil
  /\ err # ErrSink
  /\ w.scan.bytes = n
  /\ 1 < n
  /\ n < pos
  /\ pos = Len(src)
  /\ w.dst.buf # <<>>

\* C15: with the escape flag set, compact puts the escape in the place of
\* each raw U+2028 / U+2029 of a string; with the flag clear, as in Compact,
\* the three bytes are in the output as they were.
C15_FlagControlsLineSep ==
  /\ (op = "compactEscape" /\ err = nil /\ HasLineSep(src))
       => /\ ~HasLineSep(Appended)
          /\ Appended = LineSepEscaped(HtmlEscaped(Elide(src)))
  /\ (op = "Compact" /\ err = nil /\ HasLineSep(src))
       => /\ HasLineSep(Appended)
          /\ Appended = Elide(src)

\* The classification the scanner gives byte i of x (i counts from 1).
ClassAt(x, i) == step(scanAll(reset, x, 0, i - 1), x[i]).v

\* The bytes compact may escape: '<', '>', '&' and the three bytes of each
\* raw U+2028 / U+2029.
EscapeEligible(x) ==
  {i \in 1..Len(x) :
     \/ x[i] \in {LT, GT, AMP}
     \/ LineSepAt(x, i)
     \/ (i > 1 /\ LineSepAt(x, i - 1))
     \/ (i > 2 /\ LineSepAt(x, i - 2))}

\* start after compact's loop has gone over the first k bytes of src.
StartAfter(k, escape) ==
  compactLoop([dst |-> Buffer(<<>>), scan |-> reset, start |-> 0,
               err |-> nil, brk |-> FALSE], src, 0, k, escape).start

\* C17: in a document the scanner accepts, every '<', '>', '&' and every byte
\* of a raw U+2028 / U+2029 lies in a string literal and is classified
\* scanContinue; compact's start never moves back, and each byte of src is
\* dropped, copied once or replaced once by its escape: the output has one
\* byte for each byte kept, six for each '<', '>', '&' escaped and six for
\* the three bytes of each U+2028 / U+2029.
C17_EscapeBlindToContext ==
  (op \in {"Compact", "compactEscape"} /\ err = nil)
    => /\ \A i \in EscapeEligible(src) :
            StrMask(src)[i] /\ ClassAt(src, i) = scanContinue
       /\ \A k \in 1..Len(src) :
            StartAfter(k - 1, op = "compactEscape")
              <= StartAfter(k, op = "compactEscape")
       /\ Len(Appended)
            = Len(src) - Cardinality(WsBetween(src))
                + 3 * Cardinality({i \in 1..Len(src) : LineSepAt(src, i)})
                + (IF op = "compactEscape" THEN 5 * Len(HtmlBytes(src)) ELSE 0)

\* Escaping on, a valid document with '<', '&' and a raw U+2029 in a string
\* and white space between its tokens.
C17_Witness ==
  /\ op = "compactEscape"
  /\ err = nil
  /\ HasLineSep(src)
  /\ Len(HtmlBytes(src)) > 1
  /\ WsBetween(src) # {}
  /\ Len(Appended) > Len(src)

\* The bytes of the string literals of x, in order.
StrBytes(x) == Let(StrMask(x), LAMBDA mask : Pick(x, {i \in 1..Len(x) : mask[i]}))

\* The bytes of x outside its string literals that are not white space.
TokenBytes(x) ==
  Let(StrMask(x), LAMBDA mask :
    Pick(x, {i \in 1..Len(x) : ~mask[i] /\ ~IsWs(x[i])}))

\* C18: what Indent appends for a valid document has the string literals of
\* the document, byte for byte, with nothing put inside them, and the bytes
\* outside strings that are not white space as they were: white space is the
\* only thing added, and only outside the strings.
C18_StringsUntouched ==
  (op = "Indent" /\ err = nil)
    => /\ StrBytes(Appended) = StrBytes(src)
       /\ TokenBytes(Appended) = TokenBytes(src)

\* An indented document with a string that holds a comma, brackets and
\* white space.
C18_Witness ==
  /\ op = "Indent"
  /\ err = nil
  /\ \E i \in WsInStrings(src) : TRUE
  /\ \E i \in 1..Len(src) : StrMask(src)[i] /\ src[i] = COMMA
  /\ \E i \in 1..Len(src) : StrMask(src)[i] /\ src[i] = LBRACKET
  /\ Len(Appended) > Len(src)

====
